---------------------------- MODULE Spec2Model ----------------------------
(***************************************************************************)
(* Dataset tooling of the Mixology repository:                             *)
(*   - DatasetSynthesizer (transform_data.py): composites every image of   *)
(*     a labelled dataset onto a random background and carries the label   *)
(*     file over;                                                          *)
(*   - DatasetMerger (merge_dataset.py): folds the original dataset into   *)
(*     the synthetic one under a white_bg_ prefix.                         *)
(* The synthesizer is followed at two grains: file by file over a whole    *)
(* dataset (Spec, and RerunSpec for a second call of process), and pixel   *)
(* by pixel through the body of the image loop (ImgSpec).                  *)
(* The file system is part of the state: a file is a path with a content,  *)
(* a directory is a path.  Failures of the operating system (a write that  *)
(* is refused, a copy that raises) are inputs of the actions.              *)
(***************************************************************************)
EXTENDS Naturals, Integers, Sequences, FiniteSets, TLC

VARIABLES
    fs,            \* existing files: path |-> content
    dirs,          \* existing directories: set of [root, split, kind]
    bg,            \* background directory: [exists, files: name |-> content]
    outRoot,       \* the root output_dir names: "dst", or "src" when it is source_dir
    pc,            \* position of the running script
    backgrounds,   \* self.backgrounds: list of decoded backgrounds (or None)
    si,            \* index into self.subsets of the split being handled
    images,        \* the rest of the list the image loop iterates over
    subset_count,  \* counter of the split being handled
    stats,         \* the dictionary of the final report
    total_copied,  \* the merger's counter
    faults,        \* refused operating-system calls so far
    fs0,           \* history: the files before the run
    dirs0,         \* history: the directories before the run
    readImgs,      \* history: source images handed to cv2.imread
    written,       \* history: [path, src] of every file written during the run
    skipped,       \* history: splits skipped for a missing images directory
    original_img,  \* the decoded source image the loop body works on
    pooled,        \* the entry of self.backgrounds random.choice returned
    mask,          \* the foreground mask remove_white_bg returned
    bg_img,        \* the copy of the background, resized
    final_out,     \* the composite handed to cv2.imwrite
    ipc,           \* position inside the loop body (lines 93-109)
    run,           \* which run of process() on this dataset is going on
    first,         \* history: what the first run left behind
    session,       \* st.session_state of the chatbot: key |-> value
    screen,        \* the buttons the last script run of the chatbot rendered
    pending,       \* a script run of the chatbot is due
    typed,         \* the value of the sidebar's text input
    env_key,       \* ANTHROPIC_API_KEY of the environment, "" when not set
    event          \* history: the inputs of the chatbot's last script run

imgvars == <<original_img, pooled, mask, bg_img, final_out, ipc>>

runvars == <<run, first>>

appvars == <<session, screen, pending, typed, env_key, event>>

vars == <<fs, dirs, bg, outRoot, pc, backgrounds, si, images, subset_count,
          stats, total_copied, faults, fs0, dirs0, readImgs, written, skipped,
          imgvars, runvars, appvars>>

-----------------------------------------------------------------------------
(* Bounds of the model *)

MaxImages == 2     \* source images in the whole dataset
MaxBg     == 2     \* files in the background directory
MaxFaults == 1     \* refused operating-system calls in one run

-----------------------------------------------------------------------------
(* Program constants *)

subsets == <<"train", "valid", "test">>

supported_ext == <<".jpg", ".jpeg", ".png", ".bmp">>

WhiteBgPrefix == "white_bg_"

Splits == {subsets[i] : i \in 1..Len(subsets)}

SupportedExt == {supported_ext[i] : i \in 1..Len(supported_ext)}

ExtIndex(e) == CHOOSE i \in 1..Len(supported_ext) : supported_ext[i] = e

-----------------------------------------------------------------------------
(* File names, paths and contents *)

Name(stem, ext) == [stem |-> stem, ext |-> ext]

ImageNames == {Name("a", ".jpg"), Name("a", ".png"), Name("b", ".jpg")}

BgNames == {Name("bg1", ".jpg"), Name("bg2", ".png"), Name("notes", ".txt")}

P(root, split, kind, name) ==
    [root |-> root, split |-> split, kind |-> kind, name |-> name]

D(root, split, kind) == [root |-> root, split |-> split, kind |-> kind]

LabelName(imgName) == Name(imgName.stem, ".txt")

None == <<"None">>

Photo(p) == <<"photo", p.split, p.name.stem, p.name.ext>>

Garbage(p) == <<"garbage", p.split, p.name.stem, p.name.ext>>

LabelText(split, stem) == <<"label", split, stem>>

\* cv2.imread: the decoded image, or None for a file that does not decode
imread(content) ==
    IF content[1] \in {"photo", "composite", "bgphoto"} THEN content ELSE None

\* the file-level result of steps 2-4: the source's foreground over the
\* resized background
Composite(original, bgImg) == <<"composite", original, bgImg>>

Write(f, path, content) ==
    [q \in (DOMAIN f) \cup {path} |-> IF q = path THEN content ELSE f[q]]

Exists(f, path) == path \in DOMAIN f

\* an entry of the history of writes: the file at path was made from the
\* source image src
Wr(path, src) == [path |-> path, src |-> src]

FilesUnder(f, root) == {q \in DOMAIN f : q.root = root}

\* Path.glob('*<ext>') over one directory: the names with that extension
Glob(f, root, split, kind, ext) ==
    {q.name : q \in {r \in DOMAIN f : r.root = root /\ r.split = split
                                      /\ r.kind = kind /\ r.name.ext = ext}}

\* the lists a loop over supported_ext can build from the globs of the name
\* set N: extension by extension, the order inside one extension being the
\* directory's own
GlobLists(N) ==
    LET S == {x \in N : x.ext \in SupportedExt}
        n == Cardinality(S)
    IN  {l \in [1..n -> S] :
            /\ \A i, j \in 1..n : i # j => l[i] # l[j]
            /\ \A i, j \in 1..n :
                   i < j => ExtIndex(l[i].ext) <= ExtIndex(l[j].ext)}

DirNames(f, root, split, kind) ==
    UNION {Glob(f, root, split, kind, e) : e \in SupportedExt}

-----------------------------------------------------------------------------
(* The states a dataset on disk can be in before a run *)

\* the places of the source images: the first two splits hold them, the
\* third one is empty or missing
SrcImageUniverse ==
    {P("src", subsets[i], "images", n) : i \in {1, 2}, n \in ImageNames}

NoStats == [k \in Splits \cup {"total"} |-> 0]

StemsIn(X) == {<<q.split, q.name.stem>> : q \in X}

\* the source trees holding the images X: at most one of them does not
\* decode (bad), a label file for some of the stems (lbl), and some of the
\* splits without an image have their folders all the same (empty); the
\* labels folder of a split is there whenever its images folder is
TreesOver(X) ==
    UNION {UNION {{[imgs |-> X, bad |-> B, lbl |-> L, empty |-> E] :
                      E \in SUBSET (Splits \ {q.split : q \in X})} :
                  L \in SUBSET StemsIn(X)} :
           B \in {{}} \cup {{q} : q \in X}}

SourceTrees ==
    UNION {TreesOver(X) :
           X \in {Y \in SUBSET SrcImageUniverse : Cardinality(Y) <= MaxImages}}

TreeFiles(t) ==
    LET lblPaths == {P("src", sl[1], "labels", Name(sl[2], ".txt")) : sl \in t.lbl}
    IN  [q \in t.imgs \cup lblPaths |->
            IF q.kind = "labels" THEN LabelText(q.split, q.name.stem)
            ELSE IF q \in t.bad THEN Garbage(q) ELSE Photo(q)]

TreeDirs(t) ==
    LET present == {q.split : q \in t.imgs} \cup t.empty
    IN  {D("src", s, k) : s \in present, k \in {"images", "labels"}}

\* what an earlier run over tree t has left under root: a file at every
\* place the synthesizer writes to (prefix "") or the merger writes to
\* (prefix white_bg_)
Leftovers(t, root, prefix) ==
    {P(root, q.split, "images", Name(prefix \o q.name.stem, q.name.ext)) :
        q \in t.imgs}
    \cup {P(root, q.split, "labels", Name(prefix \o q.name.stem, ".txt")) :
            q \in t.imgs}

StaleFiles(X) == [q \in X |-> <<"stale", q.split, q.name.stem, q.name.ext>>]

Overlay(f, g) ==
    [q \in (DOMAIN f) \cup (DOMAIN g) |-> IF q \in DOMAIN g THEN g[q] ELSE f[q]]

DirsOf(X) == {D(q.root, q.split, q.kind) : q \in X}

\* the background folders holding the files X, bad being the images among
\* them that do not decode
BgOver(X) ==
    {[exists |-> TRUE, names |-> X, bad |-> B] :
        B \in SUBSET {n \in X : n.ext \in SupportedExt}}

BgDirs ==
    {[exists |-> FALSE, names |-> {}, bad |-> {}]}
    \cup UNION {BgOver(X) : X \in {Y \in SUBSET BgNames : Cardinality(Y) <= MaxBg}}

BgFiles(b) ==
    [n \in b.names |->
        IF n.ext = ".txt" THEN <<"text", n.stem>>
        ELSE IF n \in b.bad THEN <<"garbage", n.stem>>
        ELSE <<"bgphoto", n.stem>>]

-----------------------------------------------------------------------------
(* Pixels and images.  A pixel is <<b, g, r>> of 8-bit channels, an image    *)
(* is [w, h, px] with px defined on the positions <<row, col>>; a mask is   *)
(* an image of one channel.                                                  *)

MaxPixels   == 4   \* pixels of a source image
MaxBgPixels == 2   \* pixels of a background image

Max(X) == CHOOSE x \in X : \A y \in X : y <= x

Min(X) == CHOOSE x \in X : \A y \in X : x <= y

Pos(w, h) == (1..h) \X (1..w)

NoImg == [w |-> 0, h |-> 0, px |-> <<>>]

\* numpy's shape of an image: (rows, columns), indexed from 0 in the code
Shape(image) == <<image.h, image.w>>

White == <<255, 255, 255>>

Black == <<0, 0, 0>>

Red == <<0, 0, 255>>

Blue == <<255, 0, 0>>

\* channel values around the two thresholds
Levels == {0, 209, 210, 214, 215, 255}

AllPixels == Levels \X Levels \X Levels

Sizes(n) == {d \in (1..n) \X (1..n) : d[1] * d[2] <= n}

ImagesOver(colours, n) ==
    UNION {{[w |-> d[1], h |-> d[2], px |-> f] : f \in [Pos(d[1], d[2]) -> colours]}
           : d \in Sizes(n)}

\* decoded source images: one pixel of any colour, or a few pixels of white
\* and red
SourceImgs == ImagesOver(AllPixels, 1) \cup ImagesOver({White, Red}, MaxPixels)

BgImgs == ImagesOver({Black, Blue}, MaxBgPixels)

\* n / d rounded to the nearest integer, d > 0
Rounded(n, d) == (2 * n + d) \div (2 * d)

\* cv2.cvtColor(image, cv2.COLOR_BGR2HSV) on one 8-bit pixel: V is the
\* largest channel, S is 255 * (V - min) / V and H is half the hue angle,
\* both in 12-bit fixed point
BGR2HSV(p) ==
    LET b == p[1]
        g == p[2]
        r == p[3]
        v == Max({b, g, r})
        diff == v - Min({b, g, r})
        sdiv == IF v = 0 THEN 0 ELSE Rounded(255 * 4096, v)
        hdiv == IF diff = 0 THEN 0 ELSE Rounded(180 * 4096, 6 * diff)
        sector == IF v = r THEN g - b
                  ELSE IF v = g THEN b - r + 2 * diff
                  ELSE r - g + 4 * diff
        h == (sector * hdiv + 2048) \div 4096
    IN  <<IF h < 0 THEN h + 180 ELSE h, (diff * sdiv + 2048) \div 4096, v>>

cvtColor(image) ==
    [image EXCEPT !.px = [q \in DOMAIN image.px |-> BGR2HSV(image.px[q])]]

lower_white == <<0, 0, 210>>

\* upper_white reaching half of the hue range only
upper_white_HalfHue == <<90, 40, 255>>

upper_white == <<180, 40, 255>>

\* cv2.inRange: 255 where every channel lies within the bounds, ends included
inRange(image, lower, upper) ==
    [image EXCEPT !.px =
        [q \in DOMAIN image.px |->
            IF \A c \in 1..3 : /\ lower[c] <= image.px[q][c]
                               /\ image.px[q][c] <= upper[c]
            THEN 255 ELSE 0]]

bitwise_not(m) == [m EXCEPT !.px = [q \in DOMAIN m.px |-> 255 - m.px[q]]]

\* remove_white_bg: the mask of the pixels that are not near-white
remove_white_bg(image) ==
    bitwise_not(inRange(cvtColor(image), lower_white, upper_white))

\* cv2.bitwise_and(image, image, mask=m): the pixel where the mask is set,
\* zero elsewhere
bitwise_and(image, m) ==
    [image EXCEPT !.px =
        [q \in DOMAIN image.px |-> IF m.px[q] # 0 THEN image.px[q] ELSE Black]]

\* cv2.add: the channels added and clipped at 255
add(x, y) ==
    [x EXCEPT !.px =
        [q \in DOMAIN x.px |->
            [c \in 1..3 |-> Min({255, x.px[q][c] + y.px[q][c]})]]]

\* the colours an interpolation of the image can give: its own, and the
\* middle of any two of them
Blends(image) ==
    LET own == {image.px[q] : q \in DOMAIN image.px}
    IN  own \cup {[c \in 1..3 |-> (x[c] + y[c] + 1) \div 2] : x \in own, y \in own}

\* cv2.resize(image, dsize), dsize being (width, height): an untouched copy
\* when the size is already that, an interpolation otherwise
resize(image, dsize) ==
    IF dsize = <<image.w, image.h>> THEN {image}
    ELSE {[w |-> dsize[1], h |-> dsize[2], px |-> f] :
             f \in [Pos(dsize[1], dsize[2]) -> Blends(image)]}

ImgIdle ==
    /\ original_img = NoImg
    /\ pooled = NoImg
    /\ mask = NoImg
    /\ bg_img = NoImg
    /\ final_out = NoImg
    /\ ipc = "idle"

NoFiles == [q \in {} |-> None]

RunIdle ==
    /\ run = 1
    /\ first = [fs |-> NoFiles, stats |-> NoStats]

NoEvent == [name |-> "none"]

AppIdle ==
    /\ session = <<>>
    /\ screen = "none"
    /\ pending = FALSE
    /\ typed = ""
    /\ env_key = ""
    /\ event = NoEvent

-----------------------------------------------------------------------------
(* DatasetSynthesizer *)

Init ==
    /\ outRoot \in {"dst", "src"}
    /\ \E t \in SourceTrees :
          \E st \in (IF outRoot = "dst" THEN {{}, Leftovers(t, "dst", "")}
                     ELSE {{}}) :
             /\ fs = Overlay(TreeFiles(t), StaleFiles(st))
             /\ dirs = TreeDirs(t) \cup DirsOf(st)
    /\ \E b \in BgDirs : bg = [exists |-> b.exists, files |-> BgFiles(b)]
    /\ pc = "construct"
    /\ backgrounds = <<>>
    /\ si = 1
    /\ images = <<>>
    /\ subset_count = 0
    /\ stats = NoStats
    /\ total_copied = 0
    /\ faults = 0
    /\ fs0 = fs
    /\ dirs0 = dirs
    /\ readImgs = {}
    /\ written = {}
    /\ skipped = {}
    /\ ImgIdle
    /\ RunIdle
    /\ AppIdle

\* the places the current iteration of the loop over self.subsets works on
img_source_dir == D("src", subsets[si], "images")

img_out_dir == D(outRoot, subsets[si], "images")

lbl_out_dir == D(outRoot, subsets[si], "labels")

SrcImage(name) == P("src", subsets[si], "images", name)

SrcLabel(name) == P("src", subsets[si], "labels", LabelName(name))

\* OutImage with every output saved as a .jpg
OutImage_AsJpg(name) == P(outRoot, subsets[si], "images", Name(name.stem, ".jpg"))

\* OutImage with a synthesis tag put before the stem
OutImage_Tagged(name) ==
    P(outRoot, subsets[si], "images", Name(WhiteBgPrefix \o name.stem, name.ext))

\* step 5: the path cv2.imwrite is given
OutImage(name) == P(outRoot, subsets[si], "images", name)

\* OutLabel with a tag put before the stem, the image keeping its name
OutLabel_Tagged(name) ==
    P(outRoot, subsets[si], "labels", Name(WhiteBgPrefix \o name.stem, ".txt"))

\* step 6: the path shutil.copy is given
OutLabel(name) == P(outRoot, subsets[si], "labels", LabelName(name))

\* _load_backgrounds, lines 32-34 and 40-42: sys.exit(1)
ExitNoBackgrounds ==
    /\ pc = "construct"
    /\ \/ ~bg.exists
       \/ GlobLists(DOMAIN bg.files) = {<<>>}
    /\ pc' = "exit1"
    /\ UNCHANGED <<fs, dirs, bg, outRoot, backgrounds, si, images, subset_count,
                   stats, total_copied, faults, fs0, dirs0, readImgs, written,
                   skipped, imgvars, runvars, appvars>>

\* LoadBackgrounds without the checks of lines 32 and 40
LoadBackgrounds_Unchecked ==
    /\ pc = "construct"
    /\ \E bgs \in GlobLists(DOMAIN bg.files) :
          backgrounds' = [i \in 1..Len(bgs) |-> imread(bg.files[bgs[i]])]
    /\ pc' = "process"
    /\ UNCHANGED <<fs, dirs, bg, outRoot, si, images, subset_count, stats,
                   total_copied, faults, fs0, dirs0, readImgs, written, skipped,
                   imgvars, runvars, appvars>>

\* __init__ and _load_backgrounds, lines 36-45: every globbed file is handed
\* to cv2.imread and the result, decoded or None, is kept
LoadBackgrounds ==
    /\ pc = "construct"
    /\ bg.exists
    /\ \E bgs \in GlobLists(DOMAIN bg.files) :
          /\ bgs # <<>>
          /\ backgrounds' = [i \in 1..Len(bgs) |-> imread(bg.files[bgs[i]])]
    /\ pc' = "process"
    /\ UNCHANGED <<fs, dirs, bg, outRoot, si, images, subset_count, stats,
                   total_copied, faults, fs0, dirs0, readImgs, written, skipped,
                   imgvars, runvars, appvars>>

\* SkipSplit leaving the loop over the splits instead of going on with it
SkipSplit_Returns ==
    /\ pc = "process"
    /\ si <= Len(subsets)
    /\ img_source_dir \notin dirs
    /\ pc' = "reported"
    /\ skipped' = skipped \cup {subsets[si]}
    /\ UNCHANGED <<fs, dirs, bg, outRoot, backgrounds, si, images, subset_count,
                   stats, total_copied, faults, fs0, dirs0, readImgs, written,
                   imgvars, runvars, appvars>>

\* process, lines 72-74: the split's images directory is missing
SkipSplit ==
    /\ pc = "process"
    /\ si <= Len(subsets)
    /\ img_source_dir \notin dirs
    /\ si' = si + 1
    /\ skipped' = skipped \cup {subsets[si]}
    /\ UNCHANGED <<fs, dirs, bg, outRoot, pc, backgrounds, images, subset_count,
                   stats, total_copied, faults, fs0, dirs0, readImgs, written,
                   imgvars, runvars, appvars>>

\* process, lines 76-89: the output folders are made, the images listed
EnterSplit ==
    /\ pc = "process"
    /\ si <= Len(subsets)
    /\ img_source_dir \in dirs
    /\ dirs' = dirs \cup {img_out_dir, lbl_out_dir}
    /\ images' \in GlobLists(DirNames(fs, "src", subsets[si], "images"))
    /\ subset_count' = 0
    /\ pc' = "images"
    /\ UNCHANGED <<fs, bg, outRoot, backgrounds, si, stats, total_copied,
                   faults, fs0, dirs0, readImgs, written, skipped,
                   imgvars, runvars, appvars>>

\* SkipImage counting the image it skips
SkipImage_Counted ==
    /\ pc = "images"
    /\ images # <<>>
    /\ imread(fs[SrcImage(Head(images))]) = None
    /\ readImgs' = readImgs \cup {SrcImage(Head(images))}
    /\ images' = Tail(images)
    /\ subset_count' = subset_count + 1
    /\ UNCHANGED <<fs, dirs, bg, outRoot, pc, backgrounds, si, stats,
                   total_copied, faults, fs0, dirs0, written, skipped,
                   imgvars, runvars, appvars>>

\* process, lines 93-94: the image does not decode
SkipImage ==
    /\ pc = "images"
    /\ images # <<>>
    /\ imread(fs[SrcImage(Head(images))]) = None
    /\ readImgs' = readImgs \cup {SrcImage(Head(images))}
    /\ images' = Tail(images)
    /\ UNCHANGED <<fs, dirs, bg, outRoot, pc, backgrounds, si, subset_count,
                   stats, total_copied, faults, fs0, dirs0, written, skipped,
                   imgvars, runvars, appvars>>

\* process, line 101: random.choice yields a None entry, whose .copy() raises
BackgroundRaises ==
    /\ pc = "images"
    /\ images # <<>>
    /\ imread(fs[SrcImage(Head(images))]) # None
    /\ \E k \in 1..Len(backgrounds) : backgrounds[k] = None
    /\ readImgs' = readImgs \cup {SrcImage(Head(images))}
    /\ pc' = "crashed"
    /\ UNCHANGED <<fs, dirs, bg, outRoot, backgrounds, si, images, subset_count,
                   stats, total_copied, faults, fs0, dirs0, written, skipped,
                   imgvars, runvars, appvars>>

\* step 5, line 109: cv2.imwrite writes the file, or writes nothing and
\* returns False, which nobody looks at
AfterImwrite(f, name, final_img, ok) ==
    IF ok THEN Write(f, OutImage(name), final_img) ELSE f

\* step 6, line 115: shutil.copy refuses to copy a file onto itself
SameFile(name) == SrcLabel(name) = OutLabel(name)

\* SynthImage giving an image without a label an empty label file
SynthImage_EmptyLabel ==
    /\ pc = "images"
    /\ images # <<>>
    /\ LET name == Head(images)
           original == imread(fs[SrcImage(name)])
       IN  /\ original # None
           /\ \E k \in 1..Len(backgrounds), wrote \in BOOLEAN :
                 /\ backgrounds[k] # None
                 /\ ~wrote => faults < MaxFaults
                 /\ LET f1 == AfterImwrite(fs, name,
                                           Composite(original, backgrounds[k]), wrote)
                        w1 == IF wrote THEN {Wr(OutImage(name), SrcImage(name))} ELSE {}
                    IN  IF Exists(f1, SrcLabel(name))
                        THEN /\ ~SameFile(name)
                             /\ fs' = Write(f1, OutLabel(name), f1[SrcLabel(name)])
                             /\ written' = written \cup w1
                                           \cup {Wr(OutLabel(name), SrcImage(name))}
                        ELSE /\ fs' = Write(f1, OutLabel(name), <<"text", "">>)
                             /\ written' = written \cup w1
                                           \cup {Wr(OutLabel(name), SrcImage(name))}
                 /\ faults' = IF wrote THEN faults ELSE faults + 1
           /\ readImgs' = readImgs \cup {SrcImage(name)}
    /\ images' = Tail(images)
    /\ subset_count' = subset_count + 1
    /\ UNCHANGED <<dirs, bg, outRoot, pc, backgrounds, si, stats, total_copied,
                   fs0, dirs0, skipped, imgvars, runvars, appvars>>

\* SynthImage taking the sampled background out of the pool
SynthImage_Consumes ==
    /\ pc = "images"
    /\ images # <<>>
    /\ LET name == Head(images)
           original == imread(fs[SrcImage(name)])
       IN  /\ original # None
           /\ \E k \in 1..Len(backgrounds), wrote \in BOOLEAN :
                 /\ backgrounds[k] # None
                 /\ ~wrote => faults < MaxFaults
                 /\ LET f1 == AfterImwrite(fs, name,
                                           Composite(original, backgrounds[k]), wrote)
                        w1 == IF wrote THEN {Wr(OutImage(name), SrcImage(name))} ELSE {}
                    IN  IF Exists(f1, SrcLabel(name))
                        THEN /\ ~SameFile(name)
                             /\ fs' = Write(f1, OutLabel(name), f1[SrcLabel(name)])
                             /\ written' = written \cup w1
                                           \cup {Wr(OutLabel(name), SrcImage(name))}
                        ELSE /\ fs' = f1
                             /\ written' = written \cup w1
                 /\ faults' = IF wrote THEN faults ELSE faults + 1
                 /\ backgrounds' = [i \in 1..(Len(backgrounds) - 1) |->
                                       IF i < k THEN backgrounds[i]
                                       ELSE backgrounds[i + 1]]
           /\ readImgs' = readImgs \cup {SrcImage(name)}
    /\ images' = Tail(images)
    /\ subset_count' = subset_count + 1
    /\ UNCHANGED <<dirs, bg, outRoot, pc, si, stats, total_copied,
                   fs0, dirs0, skipped, imgvars, runvars, appvars>>

\* process, lines 93-117, one image from imread to the counter
SynthImage ==
    /\ pc = "images"
    /\ images # <<>>
    /\ LET name == Head(images)
           original == imread(fs[SrcImage(name)])
       IN  /\ original # None
           /\ \E k \in 1..Len(backgrounds), wrote \in BOOLEAN :
                 /\ backgrounds[k] # None
                 /\ ~wrote => faults < MaxFaults
                 /\ LET f1 == AfterImwrite(fs, name,
                                           Composite(original, backgrounds[k]), wrote)
                        w1 == IF wrote THEN {Wr(OutImage(name), SrcImage(name))} ELSE {}
                    IN  IF Exists(f1, SrcLabel(name))
                        THEN /\ ~SameFile(name)
                             /\ fs' = Write(f1, OutLabel(name), f1[SrcLabel(name)])
                             /\ written' = written \cup w1
                                           \cup {Wr(OutLabel(name), SrcImage(name))}
                        ELSE /\ fs' = f1
                             /\ written' = written \cup w1
                 /\ faults' = IF wrote THEN faults ELSE faults + 1
           /\ readImgs' = readImgs \cup {SrcImage(name)}
    /\ images' = Tail(images)
    /\ subset_count' = subset_count + 1
    /\ UNCHANGED <<dirs, bg, outRoot, pc, backgrounds, si, stats, total_copied,
                   fs0, dirs0, skipped, imgvars, runvars, appvars>>

\* process, lines 93-115: the image is written and shutil.copy raises (the
\* label would be copied onto itself, or the system refuses the copy)
LabelCopyRaises ==
    /\ pc = "images"
    /\ images # <<>>
    /\ LET name == Head(images)
           original == imread(fs[SrcImage(name)])
       IN  /\ original # None
           /\ \E k \in 1..Len(backgrounds), wrote \in BOOLEAN, refused \in BOOLEAN :
                 /\ backgrounds[k] # None
                 /\ LET f1 == AfterImwrite(fs, name,
                                           Composite(original, backgrounds[k]), wrote)
                        n == (IF wrote THEN 0 ELSE 1) + (IF refused THEN 1 ELSE 0)
                    IN  /\ Exists(f1, SrcLabel(name))
                        /\ refused \/ SameFile(name)
                        /\ faults + n <= MaxFaults
                        /\ faults' = faults + n
                        /\ fs' = f1
                        /\ written' = IF wrote
                                      THEN written \cup {Wr(OutImage(name), SrcImage(name))}
                                      ELSE written
           /\ readImgs' = readImgs \cup {SrcImage(name)}
    /\ pc' = "crashed"
    /\ UNCHANGED <<dirs, bg, outRoot, backgrounds, si, images, subset_count,
                   stats, total_copied, fs0, dirs0, skipped, imgvars, runvars,
                   appvars>>

\* process, lines 119-121: the split's count goes into the report
FinishSplit ==
    /\ pc = "images"
    /\ images = <<>>
    /\ stats' = [stats EXCEPT ![subsets[si]] = subset_count,
                              !["total"] = stats["total"] + subset_count]
    /\ si' = si + 1
    /\ pc' = "process"
    /\ UNCHANGED <<fs, dirs, bg, outRoot, backgrounds, images, subset_count,
                   total_copied, faults, fs0, dirs0, readImgs, written, skipped,
                   imgvars, runvars, appvars>>

\* process, lines 123-133: the final report
Report ==
    /\ pc = "process"
    /\ si > Len(subsets)
    /\ pc' = "reported"
    /\ UNCHANGED <<fs, dirs, bg, outRoot, backgrounds, si, images, subset_count,
                   stats, total_copied, faults, fs0, dirs0, readImgs, written,
                   skipped, imgvars, runvars, appvars>>

Next ==
    \/ ExitNoBackgrounds
    \/ LoadBackgrounds
    \/ SkipSplit
    \/ EnterSplit
    \/ SkipImage
    \/ BackgroundRaises
    \/ SynthImage
    \/ LabelCopyRaises
    \/ FinishSplit
    \/ Report

Spec == Init /\ [][Next]_vars


-----------------------------------------------------------------------------
(* process() called a second time on the same dataset *)

\* the first run starts on a destination that does not exist yet, with a
\* background directory whose images all decode, so that the construction
\* succeeds and no sampled background is None
RerunInit ==
    /\ Init
    /\ outRoot = "dst"
    /\ FilesUnder(fs, "dst") = {}
    /\ bg.exists
    /\ \E n \in DOMAIN bg.files : n.ext \in SupportedExt
    /\ \A n \in DOMAIN bg.files :
          n.ext \in SupportedExt => imread(bg.files[n]) # None

SourceUnchanged ==
    /\ FilesUnder(fs, "src") = FilesUnder(fs0, "src")
    /\ \A q \in FilesUnder(fs, "src") : fs[q] = fs0[q]

\* Rerun going on with the report of the first run
Rerun_KeepsStats ==
    /\ pc = "reported"
    /\ run = 1
    /\ SourceUnchanged
    /\ first' = [fs |-> fs, stats |-> stats]
    /\ run' = 2
    /\ pc' = "process"
    /\ si' = 1
    /\ images' = <<>>
    /\ subset_count' = 0
    /\ fs0' = fs
    /\ dirs0' = dirs
    /\ readImgs' = {}
    /\ written' = {}
    /\ skipped' = {}
    /\ UNCHANGED <<fs, dirs, bg, outRoot, backgrounds, stats, total_copied,
                   faults, imgvars, appvars>>

\* process, lines 60-66: the second call, with the pool of the construction
\* and a report set to zero
Rerun ==
    /\ pc = "reported"
    /\ run = 1
    /\ SourceUnchanged
    /\ first' = [fs |-> fs, stats |-> stats]
    /\ run' = 2
    /\ pc' = "process"
    /\ si' = 1
    /\ images' = <<>>
    /\ subset_count' = 0
    /\ stats' = NoStats
    /\ fs0' = fs
    /\ dirs0' = dirs
    /\ readImgs' = {}
    /\ written' = {}
    /\ skipped' = {}
    /\ UNCHANGED <<fs, dirs, bg, outRoot, backgrounds, total_copied, faults,
                   imgvars, appvars>>

RerunNext ==
    \/ LoadBackgrounds
    \/ SkipSplit
    \/ EnterSplit
    \/ SkipImage
    \/ SynthImage
    \/ LabelCopyRaises
    \/ FinishSplit
    \/ Report
    \/ Rerun

RerunSpec == RerunInit /\ [][RerunNext]_vars

-----------------------------------------------------------------------------
(* DatasetMerger: original_dir is the tree under "src", synthetic_dir the    *)
(* tree under "dst"                                                          *)

\* the destination before a merge: the synthesizer's outputs for the
\* originals (synth), the copies of an earlier merge (merged), and at most
\* one split whose folders are not there (missing)
MergeInit ==
    /\ \E t \in SourceTrees, synth \in BOOLEAN, merged \in BOOLEAN,
          missing \in {{}} \cup {{s} : s \in Splits} :
          LET want == (IF synth THEN Leftovers(t, "dst", "") ELSE {})
                      \cup (IF merged THEN Leftovers(t, "dst", WhiteBgPrefix)
                            ELSE {})
              have == {q \in want : q.split \notin missing}
          IN  /\ fs = Overlay(TreeFiles(t), StaleFiles(have))
              /\ dirs = TreeDirs(t)
                        \cup {D("dst", s, k) : s \in Splits \ missing,
                                               k \in {"images", "labels"}}
    /\ bg = [exists |-> FALSE, files |-> <<>>]
    /\ outRoot = "dst"
    /\ pc = "merge"
    /\ backgrounds = <<>>
    /\ si = 1
    /\ images = <<>>
    /\ subset_count = 0
    /\ stats = NoStats
    /\ total_copied = 0
    /\ faults = 0
    /\ fs0 = fs
    /\ dirs0 = dirs
    /\ readImgs = {}
    /\ written = {}
    /\ skipped = {}
    /\ ImgIdle
    /\ RunIdle
    /\ AppIdle

src_img_dir == D("src", subsets[si], "images")

dst_img_dir == D("dst", subsets[si], "images")

dst_lbl_dir == D("dst", subsets[si], "labels")

\* merge, line 52: new_filename
NewFilename(name) == Name(WhiteBgPrefix \o name.stem, name.ext)

\* merge, line 55: the path the image is copied to
MergedImage(name) == P("dst", subsets[si], "images", NewFilename(name))

\* merge, lines 58-63: the path the label is copied to
MergedLabel(name) == P("dst", subsets[si], "labels", NewFilename(LabelName(name)))

\* merge, lines 38-40
MergeSkipSplit ==
    /\ pc = "merge"
    /\ si <= Len(subsets)
    /\ src_img_dir \notin dirs
    /\ si' = si + 1
    /\ skipped' = skipped \cup {subsets[si]}
    /\ UNCHANGED <<fs, dirs, bg, outRoot, pc, backgrounds, images, subset_count,
                   stats, total_copied, faults, fs0, dirs0, readImgs, written,
                   imgvars, runvars, appvars>>

\* merge, lines 42-47
MergeEnterSplit ==
    /\ pc = "merge"
    /\ si <= Len(subsets)
    /\ src_img_dir \in dirs
    /\ images' \in GlobLists(DirNames(fs, "src", subsets[si], "images"))
    /\ pc' = "copying"
    /\ UNCHANGED <<fs, dirs, bg, outRoot, backgrounds, si, subset_count, stats,
                   total_copied, faults, fs0, dirs0, readImgs, written, skipped,
                   imgvars, runvars, appvars>>

\* merge, lines 49-65: one image and its label are copied
MergeCopy ==
    /\ pc = "copying"
    /\ images # <<>>
    /\ dst_img_dir \in dirs
    /\ LET name == Head(images)
           f1 == Write(fs, MergedImage(name), fs[SrcImage(name)])
       IN  IF Exists(f1, SrcLabel(name))
           THEN /\ dst_lbl_dir \in dirs
                /\ fs' = Write(f1, MergedLabel(name), f1[SrcLabel(name)])
                /\ written' = written \cup {Wr(MergedImage(name), SrcImage(name)),
                                           Wr(MergedLabel(name), SrcImage(name))}
           ELSE /\ fs' = f1
                /\ written' = written \cup {Wr(MergedImage(name), SrcImage(name))}
    /\ images' = Tail(images)
    /\ total_copied' = total_copied + 1
    /\ UNCHANGED <<dirs, bg, outRoot, pc, backgrounds, si, subset_count, stats,
                   faults, fs0, dirs0, readImgs, skipped, imgvars, runvars,
                   appvars>>

\* merge, line 55: shutil.copy2 raises, for a destination folder that is
\* not there or a copy the system refuses
MergeImageCopyRaises ==
    /\ pc = "copying"
    /\ images # <<>>
    /\ \/ /\ dst_img_dir \notin dirs
          /\ UNCHANGED faults
       \/ /\ dst_img_dir \in dirs
          /\ faults < MaxFaults
          /\ faults' = faults + 1
    /\ pc' = "crashed"
    /\ UNCHANGED <<fs, dirs, bg, outRoot, backgrounds, si, images, subset_count,
                   stats, total_copied, fs0, dirs0, readImgs, written, skipped,
                   imgvars, runvars, appvars>>

\* merge, line 63: the image is copied and the copy of the label raises
MergeLabelCopyRaises ==
    /\ pc = "copying"
    /\ images # <<>>
    /\ dst_img_dir \in dirs
    /\ LET name == Head(images)
           f1 == Write(fs, MergedImage(name), fs[SrcImage(name)])
       IN  /\ Exists(f1, SrcLabel(name))
           /\ \/ /\ dst_lbl_dir \notin dirs
                 /\ UNCHANGED faults
              \/ /\ dst_lbl_dir \in dirs
                 /\ faults < MaxFaults
                 /\ faults' = faults + 1
           /\ fs' = f1
           /\ written' = written \cup {Wr(MergedImage(name), SrcImage(name))}
    /\ pc' = "crashed"
    /\ UNCHANGED <<dirs, bg, outRoot, backgrounds, si, images, subset_count,
                   stats, total_copied, fs0, dirs0, readImgs, skipped,
                   imgvars, runvars, appvars>>

\* merge, line 49: the loop over the images of the split ends
MergeFinishSplit ==
    /\ pc = "copying"
    /\ images = <<>>
    /\ si' = si + 1
    /\ pc' = "merge"
    /\ UNCHANGED <<fs, dirs, bg, outRoot, backgrounds, images, subset_count,
                   stats, total_copied, faults, fs0, dirs0, readImgs, written,
                   skipped, imgvars, runvars, appvars>>

\* merge, lines 67-72
MergeReport ==
    /\ pc = "merge"
    /\ si > Len(subsets)
    /\ pc' = "merged"
    /\ UNCHANGED <<fs, dirs, bg, outRoot, backgrounds, si, images, subset_count,
                   stats, total_copied, faults, fs0, dirs0, readImgs, written,
                   skipped, imgvars, runvars, appvars>>

MergeNext ==
    \/ MergeSkipSplit
    \/ MergeEnterSplit
    \/ MergeCopy
    \/ MergeImageCopyRaises
    \/ MergeLabelCopyRaises
    \/ MergeFinishSplit
    \/ MergeReport

MergeSpec == MergeInit /\ [][MergeNext]_vars

-----------------------------------------------------------------------------
(* The body of the image loop on the pixels of one decoded source image and *)
(* one entry of the background pool (transform_data.py, lines 93-109)        *)

datavars == <<fs, dirs, bg, outRoot, pc, backgrounds, si, images, subset_count,
              stats, total_copied, faults, fs0, dirs0, readImgs, written,
              skipped>>

ImgInit ==
    /\ original_img \in SourceImgs
    /\ pooled \in BgImgs
    /\ mask = NoImg
    /\ bg_img = NoImg
    /\ final_out = NoImg
    /\ ipc = "decoded"
    /\ fs = NoFiles
    /\ dirs = {}
    /\ bg = [exists |-> FALSE, files |-> <<>>]
    /\ outRoot = "dst"
    /\ pc = "images"
    /\ backgrounds = <<>>
    /\ si = 1
    /\ images = <<>>
    /\ subset_count = 0
    /\ stats = NoStats
    /\ total_copied = 0
    /\ faults = 0
    /\ fs0 = fs
    /\ dirs0 = dirs
    /\ readImgs = {}
    /\ written = {}
    /\ skipped = {}
    /\ RunIdle
    /\ AppIdle

\* step 2: mask = self.remove_white_bg(original)
RemoveWhiteBg ==
    /\ ipc = "decoded"
    /\ mask' = remove_white_bg(original_img)
    /\ ipc' = "masked"
    /\ UNCHANGED <<original_img, pooled, bg_img, final_out, datavars, runvars, appvars>>

\* the size handed to cv2.resize with height and width the other way round
dsize_Swapped == <<Shape(original_img)[1], Shape(original_img)[2]>>

\* the size handed to cv2.resize: (original.shape[1], original.shape[0])
dsize == <<Shape(original_img)[2], Shape(original_img)[1]>>

\* step 3: a copy of the sampled background, resized to the source image
ResizeBackground ==
    /\ ipc = "masked"
    /\ bg_img' \in resize(pooled, dsize)
    /\ ipc' = "sampled"
    /\ UNCHANGED <<original_img, pooled, mask, final_out, datavars, runvars, appvars>>

\* the foreground of the source image
bottle_part == bitwise_and(original_img, mask)

\* bg_part taking the whole background
bg_part_Whole == bg_img

\* the background where the mask is not set
bg_part == bitwise_and(bg_img, bitwise_not(mask))

\* step 4: final_img = cv2.add(bg_part, bottle_part); the arrays have to be
\* of one size
Compose ==
    /\ ipc = "sampled"
    /\ Shape(bg_img) = Shape(original_img)
    /\ final_out' = add(bg_part, bottle_part)
    /\ ipc' = "composed"
    /\ UNCHANGED <<original_img, pooled, mask, bg_img, datavars, runvars, appvars>>

ImgNext ==
    \/ RemoveWhiteBg
    \/ ResizeBackground
    \/ Compose

ImgSpec == ImgInit /\ [][ImgNext]_vars

-----------------------------------------------------------------------------
(* Properties of the synthesizer and of the merger *)

\* the images of split s in the source dataset before the run
SourceImages(s) ==
    {q \in DOMAIN fs0 : q.root = "src" /\ q.split = s /\ q.kind = "images"
                        /\ q.name.ext \in SupportedExt}

Decodable(q) == imread(fs0[q]) # None

LabelOf(q) == P("src", q.split, "labels", LabelName(q.name))

WrittenPaths == {w.path : w \in written}

WrittenImages(s) ==
    {w \in written : w.path.kind = "images" /\ w.path.split = s}

\* C1 - label fidelity: once process() has completed, every decodable source
\* image that has a label file L has, in the labels folder of its split in
\* the destination, a label file with the content of L whose stem is the
\* stem of the output image written for it.
C1_LabelFidelity ==
    pc = "reported" =>
        \A s \in Splits : \A q \in SourceImages(s) :
            (Decodable(q) /\ Exists(fs0, LabelOf(q))) =>
                \E o \in DOMAIN fs :
                    /\ o.root = outRoot /\ o.split = s /\ o.kind = "labels"
                    /\ o.name.ext = ".txt"
                    /\ fs[o] = fs0[LabelOf(q)]
                    /\ \A w \in WrittenImages(s) :
                           w.src = q => w.path.name.stem = o.name.stem

\* C1 happens: a labelled image was synthesized over the leftovers of an
\* earlier run, the old label being replaced
C1_Witness ==
    /\ pc = "reported"
    /\ \E s \in Splits : \E q \in SourceImages(s) :
          /\ Decodable(q)
          /\ Exists(fs0, LabelOf(q))
          /\ \E w \in WrittenImages(s) : w.src = q
          /\ Exists(fs0, P("dst", s, "labels", LabelName(q.name)))

\* C2 - no source mutation, as claimed: no file or folder under the source
\* root is created, deleted or changed, whatever the destination root is.
C2_SourceUntouched ==
    /\ FilesUnder(fs, "src") = FilesUnder(fs0, "src")
    /\ \A q \in FilesUnder(fs0, "src") : fs[q] = fs0[q]
    /\ {d \in dirs : d.root = "src"} = {d \in dirs0 : d.root = "src"}

\* C3 - resilience to a corrupt file: the run is never ended by a file that
\* does not decode, the reported count of a split is the number of its
\* decodable images, and neither an output image nor a label is written for a
\* file that does not decode (a label of that stem is written only for a
\* decodable image of the same stem).
C3_CorruptFileSkipped ==
    /\ (pc = "crashed" /\ images # <<>>) =>
           imread(fs[SrcImage(Head(images))]) # None
    /\ pc = "reported" =>
           \A s \in Splits :
               stats[s] = Cardinality({q \in SourceImages(s) : Decodable(q)})
    /\ \A s \in Splits : \A q \in SourceImages(s) :
           ~Decodable(q) =>
               /\ \A w \in written : w.src # q
               /\ P(outRoot, s, "images", q.name) \notin WrittenPaths
               /\ P(outRoot, s, "labels", LabelName(q.name)) \in WrittenPaths =>
                      \E r \in SourceImages(s) :
                          Decodable(r) /\ r.name.stem = q.name.stem

\* C3 happens: a split with a decodable image and one that does not decode
\* was processed to the report
C3_Witness ==
    /\ pc = "reported"
    /\ \E s \in Splits :
          /\ \E q \in SourceImages(s) : ~Decodable(q) /\ q \in readImgs
          /\ stats[s] >= 1

NoBackgroundImages ==
    \/ ~bg.exists
    \/ \A n \in DOMAIN bg.files : n.ext \notin SupportedExt

\* C4 - empty background directory: with the background folder missing, or
\* holding no file of a supported extension, the script ends in sys.exit(1)
\* at construction; nothing is created under the destination root and no
\* source image is read.
C4_NoBackgroundsExit ==
    /\ NoBackgroundImages => pc \in {"construct", "exit1"}
    /\ (pc = "construct" /\ NoBackgroundImages) => ENABLED ExitNoBackgrounds
    /\ pc = "exit1" =>
           /\ NoBackgroundImages
           /\ fs = fs0 /\ dirs = dirs0
           /\ written = {} /\ readImgs = {}

\* C4 happens: the folder is there, holds a file, and none is an image
C4_Witness ==
    /\ pc = "exit1"
    /\ bg.exists
    /\ DOMAIN bg.files # {}
    /\ \E s \in Splits : SourceImages(s) # {}

\* C5 - merger collision avoidance, as claimed: no file that was in the
\* destination before the merge is written over or changed.
C5_NoOverwrite ==
    \A q \in FilesUnder(fs0, "dst") :
        /\ q \notin WrittenPaths
        /\ Exists(fs, q)
        /\ fs[q] = fs0[q]

C7_FailureConfined == [][pc = "images" => pc' \in {"images", "process"}]_vars

\* C8, as claimed: a run that has passed the check of the backgrounds stops
\* nowhere but at the final report.
C8_ReachesReport ==
    pc \in {"process", "images", "crashed"} => ENABLED Next

\* C9, as claimed: in the final report the count of a split is the number of
\* output images written for it during the run, and the total is the sum of
\* the counts.
C9_CountsWritten ==
    pc = "reported" =>
        /\ \A s \in Splits : stats[s] = Cardinality(WrittenImages(s))
        /\ stats["total"] = stats["train"] + stats["valid"] + stats["test"]

\* the splits before position i of self.subsets
Before(i) == {subsets[j] : j \in 1..(i - 1)}

SplitDone(s) ==
    \/ s \in skipped
    \/ /\ D("src", s, "images") \in dirs0
       /\ D(outRoot, s, "images") \in dirs
       /\ SourceImages(s) \subseteq readImgs

\* C10 - missing split: a split is skipped exactly when its images folder is
\* missing from the source; for a skipped split no folder is created in the
\* destination and the count is 0; the run goes on: every other split is
\* processed, and the report is reached only after all three.
C10_MissingSplitSkipped ==
    /\ \A s \in skipped :
          /\ D("src", s, "images") \notin dirs0
          /\ stats[s] = 0
          /\ \A k \in {"images", "labels"} :
                 D(outRoot, s, k) \in dirs => D(outRoot, s, k) \in dirs0
          /\ \A w \in written : w.path.split # s
    /\ pc \in {"process", "images", "reported"} =>
          \A s \in Before(si) :
              /\ s \in skipped <=> D("src", s, "images") \notin dirs0
              /\ SplitDone(s)
    /\ pc = "reported" => Before(si) = Splits

\* C10 happens: train is missing and the image of a later split was written
C10_Witness ==
    /\ pc = "reported"
    /\ "train" \in skipped
    /\ \E s \in {"valid", "test"} : stats[s] >= 1 /\ WrittenImages(s) # {}

-----------------------------------------------------------------------------
(* Properties of the loop body on pixels *)

Masked == ipc \in {"masked", "sampled", "composed"}

Foreground(q) == mask.px[q] # 0

\* C11: remove_white_bg marks every pixel either foreground (255) or
\* background (0), and a pixel is background exactly when its saturation is
\* at most 40 and its value at least 210, whatever its hue.
C11_WhiteIsBackground ==
    Masked =>
        /\ Shape(mask) = Shape(original_img)
        /\ \A q \in DOMAIN original_img.px :
              LET hsv == BGR2HSV(original_img.px[q])
              IN  /\ mask.px[q] \in {0, 255}
                  /\ ~Foreground(q) <=> (hsv[2] <= 40 /\ hsv[3] >= 210)

\* a bluish pixel right on both thresholds (hue 120, saturation 40, value
\* 255) was classified, as background
C11_Witness ==
    /\ Masked
    /\ \E q \in DOMAIN original_img.px :
          /\ BGR2HSV(original_img.px[q]) = <<120, 40, 255>>
          /\ ~Foreground(q)

Composed == ipc = "composed"

AllOf(image, colour) == \A q \in DOMAIN image.px : image.px[q] = colour

\* the positions of the source image that hold a red pixel, the rest of a
\* source image of several pixels being white
RedAt == {q \in DOMAIN original_img.px : original_img.px[q] = Red}

\* C12: every pixel of the composite is the source pixel where the mask
\* marks foreground and the pixel of the resized background elsewhere; an
\* all-white source over an all-black background gives an all-black image,
\* and a white source with one red pixel gives the background with that
\* pixel red.
C12_PixelFromOneSide ==
    Composed =>
        /\ Shape(final_out) = Shape(original_img)
        /\ \A q \in DOMAIN original_img.px :
              final_out.px[q] = IF Foreground(q) THEN original_img.px[q]
                                ELSE bg_img.px[q]
        /\ AllOf(original_img, White) /\ AllOf(bg_img, Black)
              => AllOf(final_out, Black)
        /\ \A q0 \in DOMAIN original_img.px :
              (\A q \in DOMAIN original_img.px :
                  original_img.px[q] = IF q = q0 THEN Red ELSE White)
              => \A q \in DOMAIN original_img.px :
                    final_out.px[q] = IF q = q0 THEN Red ELSE bg_img.px[q]

\* a white source of four pixels, one of them red, was composed over a
\* background that is blue under the red pixel and somewhere else too
C12_Witness ==
    /\ Composed
    /\ Cardinality(DOMAIN original_img.px) = 4
    /\ Cardinality(RedAt) = 1
    /\ \A q \in RedAt : bg_img.px[q] = Blue /\ final_out.px[q] = Red
    /\ \E q \in DOMAIN original_img.px :
          original_img.px[q] = White /\ final_out.px[q] = Blue

\* C13: whatever the size of the sampled background, the resized background
\* has the width and the height of the source image, the composition goes
\* through, and the image handed to cv2.imwrite has that width and height.
C13_SizeOfSource ==
    /\ ipc \in {"sampled", "composed"} =>
          /\ bg_img.w = original_img.w /\ bg_img.h = original_img.h
          /\ DOMAIN bg_img.px = Pos(original_img.w, original_img.h)
    /\ ipc = "sampled" => ENABLED Compose
    /\ Composed =>
          /\ final_out.w = original_img.w /\ final_out.h = original_img.h
          /\ DOMAIN final_out.px = Pos(original_img.w, original_img.h)

\* a source image four pixels wide and one high was composed over a
\* background one pixel wide and two high
C13_Witness ==
    /\ Composed
    /\ original_img.w = 4 /\ original_img.h = 1
    /\ pooled.w = 1 /\ pooled.h = 2
    /\ final_out.w = 4 /\ final_out.h = 1

-----------------------------------------------------------------------------
(* Properties of the merger *)

\* every image of A's existing splits, and its label when it has one, is in
\* B under the prefixed name with the content it has in A
AllMerged ==
    \A s \in Splits : \A q \in SourceImages(s) :
        LET i == P("dst", s, "images", NewFilename(q.name))
            l == P("dst", s, "labels", NewFilename(LabelName(q.name)))
        IN  /\ Exists(fs, i) /\ fs[i] = fs0[q]
            /\ Exists(fs0, LabelOf(q)) => Exists(fs, l) /\ fs[l] = fs0[LabelOf(q)]

\* C14: with no copy refused by the operating system, merge() does not end
\* in an exception whatever B held before (a split's folders missing from B
\* included), and once it has ended every image of A's existing splits and
\* its label are in B under the white_bg_ name.
C14_CopiesIntoAnyB ==
    faults = 0 => /\ pc # "crashed"
                  /\ pc = "merged" => AllMerged

\* C15: the total merge() reports is the number of files it copied into B,
\* images and labels counted alike.
C15_TotalCountsFiles ==
    pc = "merged" => total_copied = Cardinality(written)

-----------------------------------------------------------------------------
(* Properties of the background pool and of the written paths *)

Constructed == pc \in {"process", "images", "crashed", "reported"}

\* C16: once the construction has succeeded every entry of self.backgrounds
\* is a decoded image, whatever files of a supported extension the
\* background directory holds.
C16_PoolDecoded ==
    Constructed => \A k \in 1..Len(backgrounds) : backgrounds[k] # None

\* C17 as stated: in one run every destination path, image or label, is
\* written for one source image only.
C17_EachPathOnce ==
    \A w1 \in written : \A w2 \in written : w1.path = w2.path => w1.src = w2.src

\* C17: in one run every destination image path is written for one source
\* image only, and a destination label path is written for two source
\* images only when they are of one split and share the stem, the label
\* copied being the same source file both times.
C17_ImagesOnceLabelsPerStem ==
    \A w1 \in written : \A w2 \in written :
        w1.path = w2.path /\ w1.src # w2.src =>
            /\ w1.path.kind = "labels"
            /\ w1.src.split = w2.src.split
            /\ w1.src.name.stem = w2.src.name.stem
            /\ LabelOf(w1.src) = LabelOf(w2.src)

\* a run has written two images of one stem to two paths and their one
\* label to the same path twice
C17_Witness ==
    /\ pc = "reported"
    /\ \E w1 \in written : \E w2 \in written :
          /\ w1.src # w2.src
          /\ w1.path = w2.path
          /\ w1.path.kind = "labels"
          /\ \E v1 \in written : \E v2 \in written :
                /\ v1.src = w1.src /\ v2.src = w2.src
                /\ v1.path.kind = "images" /\ v2.path.kind = "images"
                /\ v1.path # v2.path

\* C19: from the construction on no step of process(), whatever it samples,
\* resizes and composes, changes self.backgrounds: the pool keeps the
\* entries the construction loaded, and it is never empty.
C19_PoolUnchanged ==
    [][Constructed => /\ backgrounds' = backgrounds
                      /\ Len(backgrounds) > 0]_vars

\* a run has composed two images over a pool of one background
C19_Witness ==
    /\ pc = "reported"
    /\ Len(backgrounds) = 1
    /\ Cardinality({w \in written : w.path.kind = "images"}) = 2

-----------------------------------------------------------------------------
(* Properties of an image without a label *)

\* the decodable source images without a label file that the image loop has
\* gone through
UnlabelledDone ==
    {q \in readImgs :
        /\ Decodable(q)
        /\ ~Exists(fs0, LabelOf(q))
        /\ ~(pc = "crashed" /\ images # <<>> /\ SrcImage(Head(images)) = q)}

\* C20: a decodable source image without a label file is composed and
\* counted like any other: its output image is written unless the system
\* refuses the write, this run writes no label file for it, the counter of
\* its split counts it, and the lack of the label never ends the run (the
\* one exception it can meet is that of an undecoded background).
C20_UnlabelledStillDone ==
    /\ \A q \in UnlabelledDone :
          LET l == P(outRoot, q.split, "labels", LabelName(q.name))
          IN  /\ faults = 0 => \E w \in written : w.src = q /\ w.path.kind = "images"
              /\ \A w \in written : w.src = q => w.path.kind = "images"
              /\ l \notin WrittenPaths
              /\ Exists(fs, l) => Exists(fs0, l) /\ fs[l] = fs0[l]
    /\ pc = "images" =>
          subset_count = Cardinality({q \in readImgs : q.split = subsets[si]
                                                       /\ Decodable(q)})
    /\ pc = "crashed" /\ images # <<>>
       /\ ~Exists(fs0, LabelOf(SrcImage(Head(images))))
          => \E k \in 1..Len(backgrounds) : backgrounds[k] = None

\* a run has reported a split of two images, one of them without a label:
\* both are counted, the unlabelled one has its image and no label
C20_Witness ==
    /\ pc = "reported"
    /\ \E q \in UnlabelledDone :
          /\ stats[q.split] = 2
          /\ \E w \in written : w.src = q /\ w.path.kind = "images"
          /\ ~Exists(fs, P(outRoot, q.split, "labels", LabelName(q.name)))
          /\ \E w \in written : w.src # q /\ w.path.kind = "labels"

-----------------------------------------------------------------------------
(* Properties of the second run *)

SecondDone == run = 2 /\ pc = "reported"

\* C18: after a second process() on an unchanged source the report gives
\* the counts of the first run, every destination label file is a label
\* file of the first run with the same content and conversely, and, no
\* write having been refused in either run, the destination holds the same
\* file names as after the first run.
C18_SecondRunSame ==
    SecondDone =>
        /\ stats = first.stats
        /\ \A q \in FilesUnder(fs, "dst") \cup FilesUnder(first.fs, "dst") :
              q.kind = "labels" =>
                 /\ Exists(fs, q) /\ Exists(first.fs, q)
                 /\ fs[q] = first.fs[q]
        /\ faults = 0 => FilesUnder(fs, "dst") = FilesUnder(first.fs, "dst")

\* a second run has written two images again, one of them over another
\* background than the first time, and their label
C18_Witness ==
    /\ SecondDone
    /\ stats["total"] = 2
    /\ Cardinality({w \in written : w.path.kind = "images"}) = 2
    /\ \E w \in written : w.path.kind = "labels"
    /\ \E q \in FilesUnder(fs, "dst") :
          q.kind = "images" /\ Exists(first.fs, q) /\ fs[q] # first.fs[q]

-----------------------------------------------------------------------------
(* The chatbot (app.py).  Streamlit runs the script from the top at every   *)
(* interaction and at every st.rerun(); an action is one such run, or the   *)
(* interaction that makes one due.  st.session_state is the function        *)
(* session: a key that is not in its domain is a key the state does not     *)
(* hold.                                                                     *)

\* the order of the wizard's steps
Steps == <<"mood", "upload", "verify", "mixers", "refine", "mixing", "done">>

StepSet == {Steps[i] : i \in 1..Len(Steps)}

\* inputs of the widgets: some of the flavours, labels of the detector,
\* mixers, strengths and styles the script offers, and keys a user can type
Flavors == {"Refreshing", "Creamy"}

Brands == {"Tito 500ml", "Bacardi"}

MixerChoices == {<<>>, <<"Coke">>, <<"Coke", "Ice">>}

Strengths == {"Low", "High"}

Styles == {"Classic", "Sweet"}

TypedKeys == {"sk-a", "sk-b"}

EnvKeys == {"", "sk-env"}

Welcome == [role |-> "assistant", content |-> "Welcome. What's the vibe today?"]

AskUpload ==
    [role |-> "assistant",
     content |-> "Got it. Let's see what bottles you have. Upload a photo!"]

BarLocked == [role |-> "assistant", content |-> "Bar locked in."]

AskMixers ==
    [role |-> "assistant", content |-> "What mixers/kitchen items do you have?"]

User(text) == [role |-> "user", content |-> text]

Assistant(text) == [role |-> "assistant", content |-> text]

\* a JSON value, as json.loads returns it: a dict is the list of its
\* (key, value) pairs in order
Dict(pairs) == [kind |-> "dict", pairs |-> pairs]

List(items) == [kind |-> "list", pairs |-> items]

Has(s, k) == k \in DOMAIN s

Put(s, k, v) == [x \in (DOMAIN s) \cup {k} |-> IF x = k THEN v ELSE s[x]]

\* lines 69-78: what a key that is missing is set to
Default(k) ==
    CASE k = "step" -> "mood"
      [] k = "messages" -> <<>>
      [] k = "inventory_dict" -> Dict(<<>>)
      [] k = "flat_inventory" -> <<>>
      [] k = "preferences" -> <<>>

WizardKeys ==
    {"step", "messages", "inventory_dict", "flat_inventory", "preferences"}

\* lines 69-78
Initialised(s) ==
    [k \in (DOMAIN s) \cup WizardKeys |-> IF Has(s, k) THEN s[k] ELSE Default(k)]

\* lines 191-203: the key of the environment goes into a session that has
\* none; without one, a text that was typed goes into the session
Sidebar(s) ==
    IF env_key # ""
    THEN IF Has(s, "api_key") THEN s ELSE Put(s, "api_key", env_key)
    ELSE IF typed # "" THEN Put(s, "api_key", typed) ELSE s

\* the session as the main flow finds it, line 226
Top == Sidebar(Initialised(session))

\* get_api_key: the key of the session if it is a non-empty one, else the
\* key of the environment
get_api_key(s) ==
    IF Has(s, "api_key") /\ s["api_key"] # "" THEN s["api_key"] ELSE env_key

\* st.session_state.clear() also drops the state of the widgets: the text
\* input comes back empty or with the text the browser still shows
AfterClear == {typed, ""}

\* the first load of the page: an empty session and a script run due
AppInit ==
    /\ session = <<>>
    /\ screen = "none"
    /\ pending = TRUE
    /\ typed = ""
    /\ env_key \in EnvKeys
    /\ event = NoEvent
    /\ fs = NoFiles
    /\ dirs = {}
    /\ bg = [exists |-> FALSE, files |-> <<>>]
    /\ outRoot = "dst"
    /\ pc = "app"
    /\ backgrounds = <<>>
    /\ si = 1
    /\ images = <<>>
    /\ subset_count = 0
    /\ stats = NoStats
    /\ total_copied = 0
    /\ faults = 0
    /\ fs0 = fs
    /\ dirs0 = dirs
    /\ readImgs = {}
    /\ written = {}
    /\ skipped = {}
    /\ ImgIdle
    /\ RunIdle

\* the user asks for a rerun (Streamlit's own menu): a script run is due
UserRerun ==
    /\ ~pending
    /\ pending' = TRUE
    /\ UNCHANGED <<session, screen, typed, env_key, event, datavars, imgvars,
                   runvars>>

\* lines 198-200: the user changes the text input, shown when the
\* environment has no key, which makes a script run due
TypeKey ==
    /\ ~pending
    /\ env_key = ""
    /\ \E t \in TypedKeys \cup {""} : t # typed /\ typed' = t
    /\ pending' = TRUE
    /\ UNCHANGED <<session, screen, env_key, event, datavars, imgvars, runvars>>

\* lines 206-208: 'Reset App' clears the session and reruns
ResetApp ==
    /\ ~pending
    /\ session' = <<>>
    /\ typed' \in AfterClear
    /\ screen' = "none"
    /\ pending' = TRUE
    /\ event' = [name |-> "reset"]
    /\ UNCHANGED <<env_key, datavars, imgvars, runvars>>

\* lines 226-230: a run in the mood step with no message yet greets and
\* reruns
Greet ==
    /\ pending
    /\ Top["step"] = "mood"
    /\ Top["messages"] = <<>>
    /\ session' = Put(Top, "messages", <<Welcome>>)
    /\ screen' = "none"
    /\ event' = [name |-> "greet"]
    /\ UNCHANGED <<pending, typed, env_key, datavars, imgvars, runvars>>

\* a run with no button pressed renders the widgets of the step it is in
\* (lines 232-239, 249-253, 315-336, 346-356, 363-370, 409) and ends
Show ==
    /\ pending
    /\ Top["step"] # "mixing"
    /\ Top["step"] = "mood" => Top["messages"] # <<>>
    /\ session' = Top
    /\ screen' = Top["step"]
    /\ pending' = FALSE
    /\ event' = [name |-> "show"]
    /\ UNCHANGED <<typed, env_key, datavars, imgvars, runvars>>

\* lines 237-245: a flavour button
PickFlavor ==
    /\ ~pending
    /\ screen = "mood"
    /\ \E flavor \in Flavors :
          /\ session' =
                Put(Put(Put(Top,
                    "preferences", Put(Top["preferences"], "general_flavor", flavor)),
                    "messages", Top["messages"] \o <<User(flavor), AskUpload>>),
                    "step", "upload")
          /\ event' = [name |-> "flavor", flavor |-> flavor]
    /\ screen' = "none"
    /\ pending' = TRUE
    /\ UNCHANGED <<typed, env_key, datavars, imgvars, runvars>>

\* list(all_detected): the labels of the boxes, each once, in any order
DetectedLists ==
    {<<>>} \cup {<<b>> : b \in Brands}
    \cup ({<<b, c>> : b, c \in Brands} \ {<<b, b>> : b \in Brands})

\* what client.messages.create can bring: an exception (error), a message
\* without content (empty), or a text, which is valid JSON or not
Reply(kind, valid, value) == [kind |-> kind, valid |-> valid, value |-> value]

Replies(brands) ==
    {Reply("error", FALSE, Dict(<<>>)),
     Reply("empty", FALSE, Dict(<<>>)),
     Reply("text", FALSE, Dict(<<>>)),
     Reply("text", TRUE, Dict(<<<<"Vodka", brands>>, <<"Gin", <<>>>>>>)),
     Reply("text", TRUE, Dict(<<<<"Rum", <<brands[1]>>>>>>)),
     Reply("text", TRUE, List(brands))}

\* the call and json.loads raise nothing
Parsed(reply) == reply.kind = "text" /\ reply.valid

\* categorize_bottles with an empty dict as its fallback
categorize_bottles_EmptyFallback(brands, reply) ==
    IF Parsed(reply) THEN reply.value ELSE Dict(<<>>)

\* categorize_bottles, lines 120-129: the parsed reply, or the fallback
\* when anything in the try block raises
categorize_bottles(brands, reply) ==
    IF Parsed(reply) THEN reply.value
    ELSE Dict(<<<<"Uncategorized", brands>>>>)

\* lines 303-305: the items of every category, one list after the other
RECURSIVE Flat(_)
Flat(pairs) ==
    IF pairs = <<>> THEN <<>> ELSE Head(pairs)[2] \o Flat(Tail(pairs))

\* lines 253-256: 'Analyze Bottles' with no key in the session or the
\* environment
AnalyzeNoKey ==
    /\ ~pending
    /\ screen = "upload"
    /\ get_api_key(Top) = ""
    /\ session' = Top
    /\ event' = [name |-> "analyze", outcome |-> "nokey"]
    /\ UNCHANGED <<screen, pending, typed, env_key, datavars, imgvars, runvars>>

\* lines 265-272: Image.open raises on a file, or the model is None: the
\* run ends in the exception
AnalyzeRaises ==
    /\ ~pending
    /\ screen = "upload"
    /\ get_api_key(Top) # ""
    /\ session' = Top
    /\ event' = [name |-> "analyze", outcome |-> "raised"]
    /\ UNCHANGED <<screen, pending, typed, env_key, datavars, imgvars, runvars>>

\* nothing detected, moving on to the mixers at once
AnalyzeNothing_SkipsVerify ==
    /\ ~pending
    /\ screen = "upload"
    /\ get_api_key(Top) # ""
    /\ session' = Put(Put(Top, "flat_inventory", <<>>), "step", "mixers")
    /\ screen' = "continue"
    /\ event' = [name |-> "analyze", outcome |-> "nothing"]
    /\ UNCHANGED <<pending, typed, env_key, datavars, imgvars, runvars>>

\* lines 292-298: no label detected
AnalyzeNothing ==
    /\ ~pending
    /\ screen = "upload"
    /\ get_api_key(Top) # ""
    /\ session' = Put(Put(Top, "flat_inventory", <<>>), "step", "verify")
    /\ screen' = "continue"
    /\ event' = [name |-> "analyze", outcome |-> "nothing"]
    /\ UNCHANGED <<pending, typed, env_key, datavars, imgvars, runvars>>

\* lines 299-311: labels detected; a reply that is JSON but no dict is
\* stored and then raises at .items()
AnalyzeBottles ==
    /\ ~pending
    /\ screen = "upload"
    /\ get_api_key(Top) # ""
    /\ \E detected_list \in DetectedLists \ {<<>>} :
          \E reply \in Replies(detected_list) :
             LET categorized == categorize_bottles(detected_list, reply)
                 s1 == Put(Top, "inventory_dict", categorized)
             IN  /\ event' = [name |-> "analyze", outcome |-> "bottles",
                              detected |-> detected_list, reply |-> reply]
                 /\ IF categorized.kind = "dict"
                    THEN /\ session' = Put(Put(s1, "flat_inventory",
                                                   Flat(categorized.pairs)),
                                           "step", "verify")
                         /\ screen' = "none"
                         /\ pending' = TRUE
                    ELSE /\ session' = s1
                         /\ UNCHANGED <<screen, pending>>
    /\ UNCHANGED <<typed, env_key, datavars, imgvars, runvars>>

\* any button of the page AnalyzeNothing left: the run it starts finds the
\* verify step
Continue ==
    /\ ~pending
    /\ screen = "continue"
    /\ pending' = TRUE
    /\ UNCHANGED <<session, screen, typed, env_key, event, datavars, imgvars,
                   runvars>>

\* what the multiselect of line 329 can return: its default, the default
\* with an option added, or nothing
Selections(flat_inventory) ==
    {flat_inventory, Append(flat_inventory, "Gin"), <<>>}

\* texts the stream of generate_recipe can add up to
Recipes == {"Cuba Libre", "Mule"}

\* lines 336-342: 'Confirm Inventory'
ConfirmInventory ==
    /\ ~pending
    /\ screen = "verify"
    /\ \E final_inventory \in Selections(Top["flat_inventory"]) :
          /\ session' =
                Put(Put(Put(Top,
                    "flat_inventory", final_inventory),
                    "messages", Top["messages"] \o <<BarLocked, AskMixers>>),
                    "step", "mixers")
          /\ event' = [name |-> "confirm"]
    /\ screen' = "none"
    /\ pending' = TRUE
    /\ UNCHANGED <<typed, env_key, datavars, imgvars, runvars>>

\* lines 356-359: 'Next Step'
NextStep ==
    /\ ~pending
    /\ screen = "mixers"
    /\ \E selected_mixers \in MixerChoices :
          /\ session' =
                Put(Put(Top,
                    "preferences", Put(Top["preferences"], "mixers", selected_mixers)),
                    "step", "refine")
          /\ event' = [name |-> "next"]
    /\ screen' = "none"
    /\ pending' = TRUE
    /\ UNCHANGED <<typed, env_key, datavars, imgvars, runvars>>

\* 'Mix My Drink!' storing the strength only
MixMyDrink_NoStyle ==
    /\ ~pending
    /\ screen = "refine"
    /\ \E strength \in Strengths :
          /\ session' =
                Put(Put(Top,
                    "preferences", Put(Top["preferences"], "strength", strength)),
                    "step", "mixing")
          /\ event' = [name |-> "mix"]
    /\ screen' = "none"
    /\ pending' = TRUE
    /\ UNCHANGED <<typed, env_key, datavars, imgvars, runvars>>

\* lines 370-374: 'Mix My Drink!'
MixMyDrink ==
    /\ ~pending
    /\ screen = "refine"
    /\ \E strength \in Strengths, style \in Styles :
          /\ session' =
                Put(Put(Top,
                    "preferences",
                    Put(Put(Top["preferences"], "strength", strength),
                        "specific_style", style)),
                    "step", "mixing")
          /\ event' = [name |-> "mix"]
    /\ screen' = "none"
    /\ pending' = TRUE
    /\ UNCHANGED <<typed, env_key, datavars, imgvars, runvars>>

\* the mixing step with an except branch that moves on
Mixing_DoneOnError ==
    /\ pending
    /\ Top["step"] = "mixing"
    /\ \E raises \in BOOLEAN, recipe \in Recipes :
          IF get_api_key(Top) = ""
          THEN /\ session' = Top
               /\ event' = [name |-> "mixing", outcome |-> "nokey"]
          ELSE IF raises \/ ~Has(Top["preferences"], "mixers")
          THEN /\ session' = Put(Top, "step", "done")
               /\ event' = [name |-> "mixing", outcome |-> "raised"]
          ELSE /\ session' =
                     Put(Put(Top,
                         "messages", Append(Top["messages"], Assistant(recipe))),
                         "step", "done")
               /\ event' = [name |-> "mixing", outcome |-> "recipe"]
    /\ screen' = "none"
    /\ pending' = FALSE
    /\ UNCHANGED <<typed, env_key, datavars, imgvars, runvars>>

\* lines 377-406: a run in the mixing step.  Without a key it stops (lines
\* 388-390); the lookup of preferences['mixers'], the request and the
\* stream can raise, which line 404 catches; else the recipe is appended
\* and the step is done, with no rerun after it
Mixing ==
    /\ pending
    /\ Top["step"] = "mixing"
    /\ \E raises \in BOOLEAN, recipe \in Recipes :
          IF get_api_key(Top) = ""
          THEN /\ session' = Top
               /\ event' = [name |-> "mixing", outcome |-> "nokey"]
          ELSE IF raises \/ ~Has(Top["preferences"], "mixers")
          THEN /\ session' = Top
               /\ event' = [name |-> "mixing", outcome |-> "raised"]
          ELSE /\ session' =
                     Put(Put(Top,
                         "messages", Append(Top["messages"], Assistant(recipe))),
                         "step", "done")
               /\ event' = [name |-> "mixing", outcome |-> "recipe"]
    /\ screen' = "none"
    /\ pending' = FALSE
    /\ UNCHANGED <<typed, env_key, datavars, imgvars, runvars>>

\* st.session_state.get("api_key"): None is the empty key here
StoredKey(s) == IF Has(s, "api_key") THEN s["api_key"] ELSE ""

\* what lines 411-413 leave in the session
Restarted(key) ==
    IF key # ""
    THEN [k \in {"step", "api_key"} |-> IF k = "step" THEN "mood" ELSE key]
    ELSE [k \in {"step"} |-> "mood"]

\* 'Mix Another' without the clear of line 411
MixAnother_NoClear ==
    /\ ~pending
    /\ screen = "done"
    /\ session' = Put(Top, "step", "mood")
    /\ typed' \in AfterClear
    /\ screen' = "none"
    /\ pending' = TRUE
    /\ event' = [name |-> "mixanother"]
    /\ UNCHANGED <<env_key, datavars, imgvars, runvars>>

\* lines 409-414: 'Mix Another'
MixAnother ==
    /\ ~pending
    /\ screen = "done"
    /\ session' = Restarted(StoredKey(Top))
    /\ typed' \in AfterClear
    /\ screen' = "none"
    /\ pending' = TRUE
    /\ event' = [name |-> "mixanother"]
    /\ UNCHANGED <<env_key, datavars, imgvars, runvars>>

AppNext ==
    \/ UserRerun
    \/ TypeKey
    \/ ResetApp
    \/ Greet
    \/ Show
    \/ PickFlavor
    \/ AnalyzeNoKey
    \/ AnalyzeRaises
    \/ AnalyzeNothing
    \/ AnalyzeBottles
    \/ Continue
    \/ ConfirmInventory
    \/ NextStep
    \/ MixMyDrink
    \/ Mixing
    \/ MixAnother

AppSpec == AppInit /\ [][AppNext]_vars

\* the last run was 'Analyze Bottles' finding labels, and the request
\* raised, or its reply had no content or was no JSON
CategorizationFailed ==
    /\ event.name = "analyze"
    /\ event.outcome = "bottles"
    /\ ~Parsed(event.reply)

\* C21: when bottles are detected and the categorization fails,
\* categorize_bottles returns {"Uncategorized": <detected brands>}, which is
\* stored, and the wizard is at the verify step with flat_inventory equal to
\* the detected brand list
C21_FallbackStillAdvances ==
    CategorizationFailed =>
        /\ categorize_bottles(event.detected, event.reply)
              = Dict(<<<<"Uncategorized", event.detected>>>>)
        /\ session["inventory_dict"] = Dict(<<<<"Uncategorized", event.detected>>>>)
        /\ session["step"] = "verify"
        /\ session["flat_inventory"] = event.detected

C21_Witness ==
    /\ CategorizationFailed
    /\ event.reply.kind = "text"
    /\ Len(event.detected) = 2
    /\ pending

\* the step a run of the script finds: 'mood' when the session holds none
SeenStep == Initialised(session)["step"]

StepIndex(step) == CHOOSE i \in 1..Len(Steps) : Steps[i] = step

\* C22: the step only moves along mood, upload, verify, mixers, refine,
\* mixing, done: its next value is the same step, the immediately following
\* one, or mood, the latter by 'Reset App' at any step or by 'Mix Another'
\* at done
C22_StepOrder ==
    [][\/ SeenStep' = SeenStep
       \/ StepIndex(SeenStep') = StepIndex(SeenStep) + 1
       \/ /\ SeenStep' = "mood"
          /\ \/ event'.name = "reset"
             \/ event'.name = "mixanother" /\ SeenStep = "done"]_vars

C22_Witness == SeenStep = "done" /\ screen = "done"

\* C23: whenever step is 'mixing' the preferences hold general_flavor,
\* mixers, strength and specific_style
C23_PreferencesComplete ==
    SeenStep = "mixing" =>
        {"general_flavor", "mixers", "strength", "specific_style"}
            \subseteq DOMAIN Initialised(session)["preferences"]

C23_Witness == SeenStep = "mixing" /\ pending

\* C24: from the mixing step, step becomes 'done' only in the run that
\* appended the recipe to messages as an assistant message, leaving
\* flat_inventory and preferences as they were; in any other case (no API
\* key, generation raising, no run at all) short of 'Reset App', step stays
\* 'mixing', messages, flat_inventory and preferences are unchanged, and the
\* next run is in the mixing step again
C24_DoneOnlyWithRecipe ==
    [][LET s == Initialised(session)
           t == Initialised(session')
       IN  s["step"] = "mixing" =>
              \/ /\ t["step"] = "done"
                 /\ event'.name = "mixing"
                 /\ event'.outcome = "recipe"
                 /\ \E recipe \in Recipes :
                       t["messages"] = Append(s["messages"], Assistant(recipe))
                 /\ t["flat_inventory"] = s["flat_inventory"]
                 /\ t["preferences"] = s["preferences"]
              \/ /\ t["step"] = "mixing"
                 /\ t["messages"] = s["messages"]
                 /\ t["flat_inventory"] = s["flat_inventory"]
                 /\ t["preferences"] = s["preferences"]
                 /\ Top'["step"] = "mixing"
              \/ /\ event'.name = "reset"
                 /\ t["step"] = "mood"]_vars

C24_Witness ==
    /\ SeenStep = "mixing"
    /\ event.name = "mixing"
    /\ event.outcome = "raised"
    /\ ~pending

\* C25: 'Mix Another' leaves a session that the next run finds in its
\* initial wizard state (step 'mood', empty messages, inventory_dict,
\* flat_inventory and preferences), with the api_key that was stored, when
\* one was
C25_MixAnotherResets ==
    [][(~pending /\ screen = "done" /\ event'.name = "mixanother") =>
          /\ \A k \in WizardKeys : Initialised(session')[k] = Default(k)
          /\ Has(session, "api_key") =>
                /\ Has(session', "api_key")
                /\ session'["api_key"] = session["api_key"]
          /\ Has(session', "api_key") => Has(session, "api_key")]_vars

C25_Witness ==
    /\ event.name = "mixanother"
    /\ Has(session, "api_key")
    /\ ~Has(session, "messages")

=============================================================================
